---------------------------- MODULE Spec2Model ----------------------------
(***************************************************************************)
(* A model of the treers library: the unbalanced binary search tree        *)
(* (src/src/bst.rs), the left-leaning red-black tree (src/src/rbtree.rs),  *)
(* the multiway balanced tree (src/src/btree.rs) and the shared map and    *)
(* traversal traits (src/src/lib.rs).                                      *)
(*                                                                         *)
(* Keys are the integers 1..MaxKey.  The containers are generic in the     *)
(* value type and never inspect a value, so every put call carries its own *)
(* token: the n-th put of key k carries Val(k, n).  Any other choice of    *)
(* values is an image of this one.  Option<T> is modelled as a sequence:   *)
(* None is <<>> and Some(x) is <<x>>.                                      *)
(***************************************************************************)
EXTENDS Integers, Sequences, FiniteSets, TLC

\* ------------------------------------------------------------------ bounds
MaxKey == 6
MaxPuts == 7
MaxKeyQ == 3
MaxPutsQ == 4
MaxKeyBT == 5
MaxPutsBT == 9
MaxKeyBTD == 12
MaxKeyAll == 5
MaxPutsAll == 7
MaxKeyIdx == 4
MaxPutsIdx == 5
MaxKeyLog == 5
MaxPutsLog == 5
MaxKeyRun == 9
MaxShortRun == 100
MaxKeyInv == 4
MaxOpsInv == 5

\* the keys put into the binary trees, by the session that also queries
\* them, into the multiway tree, into the multiway tree when no key is
\* put twice, into all three trees in lockstep, and into all three trees
\* by the session that also uses indexed access
Keys == 1..MaxKey
KeysQ == 1..MaxKeyQ
KeysBT == 1..MaxKeyBT
KeysBTD == 1..MaxKeyBTD
KeysAll == 1..MaxKeyAll
KeysIdx == 1..MaxKeyIdx
\* the keys put by the sessions that record the order of their puts: any
\* order, and strictly ascending or descending order
KeysLog == 1..MaxKeyLog
KeysRun == 1..MaxKeyRun
\* the keys put into the unbalanced tree by the session that also inverts it
KeysInv == 1..MaxKeyInv

\* the value carried by the n-th put call of key k
Val(k, n) == 10 * k + n

None == <<>>
Some(x) == <<x>>

Max2(a, b) == IF a >= b THEN a ELSE b

VARIABLES
    bst,    \* the BST<K, V> under test
    rb,     \* the RedBlackTree<K, V> under test
    bt,     \* the BalancedTree<K, V> under test
    cnt,    \* history: cnt[k] = number of put(k, _) calls made so far
    out,    \* the last call made and what it returned
    hist    \* history: the keys of the put calls made so far, in call
            \* order, kept by the sessions whose claims name an order

vars == <<bst, rb, bt, cnt, out, hist>>

\* ------------------------------------------------------------- history
KeyUniverse == Keys \cup KeysQ \cup KeysBT \cup KeysBTD \cup KeysAll
                  \cup KeysIdx \cup KeysLog \cup KeysRun \cup KeysInv

RECURSIVE SumUpTo(_, _)
SumUpTo(f, n) == IF n = 0 THEN 0 ELSE f[n] + SumUpTo(f, n - 1)

\* the number of put calls made so far
TotalPuts == SumUpTo(cnt, Cardinality(KeyUniverse))
\* the keys that were put at least once
KeysPut == {k \in KeyUniverse : cnt[k] > 0}
\* no key was put twice
DistinctPuts == \A k \in KeyUniverse : cnt[k] <= 1
\* the number of put calls whose key had been put before
DupPuts == TotalPuts - Cardinality(KeysPut)

\* ============================================================ rbtree.rs
RB_NIL == [tag |-> "NIL"]
RB_Node(key, val, c, s, l, r) ==
    [tag |-> "Node", k |-> key, v |-> val, color |-> c, size |-> s,
     left |-> l, right |-> r]
RB_IsNode(t) == t.tag = "Node"

rb_new == RB_NIL

rb_size(t) == IF RB_IsNode(t) THEN t.size ELSE 0

RECURSIVE rb_get(_, _)
rb_get(t, key) ==
    IF RB_IsNode(t)
    THEN IF key < t.k THEN rb_get(t.left, key)
         ELSE IF key > t.k THEN rb_get(t.right, key)
         ELSE Some(t.v)
    ELSE None

rb_is_red(t) == IF RB_IsNode(t) THEN t.color ELSE FALSE
rb_is_left_red(t) == IF RB_IsNode(t) THEN rb_is_red(t.left) ELSE FALSE
rb_is_right_red(t) == IF RB_IsNode(t) THEN rb_is_red(t.right) ELSE FALSE
rb_get_left_clone(t) == IF RB_IsNode(t) THEN t.left ELSE RB_NIL
rb_get_right_clone(t) == IF RB_IsNode(t) THEN t.right ELSE RB_NIL
rb_get_key(t) == IF RB_IsNode(t) THEN Some(t.k) ELSE None
rb_get_val(t) == IF RB_IsNode(t) THEN Some(t.v) ELSE None

rb_set_color(t, c) == IF RB_IsNode(t) THEN [t EXCEPT !.color = c] ELSE t

rb_set_vals(t, key, val, c, s, l, r) ==
    IF RB_IsNode(t)
    THEN RB_Node(key, val, c, s, l, r)
    ELSE RB_Node(key, val, c, 1, l, r)

\* rb_rotate_left without `*v = vv.clone()`: the key moves up, the value
\* stays
rb_rotate_left_keeps_value(n) ==
    IF rb_is_red(n.right) /\ ~rb_is_red(n.left)
    THEN LET right_clone == n.right
             right_size == rb_size(right_clone)
             kk == rb_get_key(right_clone)
         IN  [n EXCEPT
                !.right = rb_get_right_clone(right_clone),
                !.color = rb_is_right_red(right_clone),
                !.left = rb_set_vals(n.left, n.k, n.v, TRUE, right_size,
                                     n.left, rb_get_left_clone(right_clone)),
                !.k = IF kk # None THEN kk[1] ELSE n.k]
    ELSE n

\* "Rotate Left" block of insert
rb_rotate_left(n) ==
    IF rb_is_red(n.right) /\ ~rb_is_red(n.left)
    THEN LET right_clone == n.right
             right_size == rb_size(right_clone)
             kk == rb_get_key(right_clone)
             vv == rb_get_val(right_clone)
         IN  [n EXCEPT
                !.right = rb_get_right_clone(right_clone),
                !.color = rb_is_right_red(right_clone),
                !.left = rb_set_vals(n.left, n.k, n.v, TRUE, right_size,
                                     n.left, rb_get_left_clone(right_clone)),
                !.k = IF kk # None THEN kk[1] ELSE n.k,
                !.v = IF vv # None THEN vv[1] ELSE n.v]
    ELSE n

\* rb_rotate_right without `*k = kk.clone()`: the old root's key stays on
\* top and is also given to the new right child
rb_rotate_right_keeps_key(n) ==
    IF rb_is_red(n.left) /\ rb_is_left_red(n.left)
    THEN LET left_clone == n.left
             new_left == rb_get_left_clone(left_clone)
             left_size == rb_size(new_left)
             vv == rb_get_val(left_clone)
         IN  [n EXCEPT
                !.left = new_left,
                !.color = TRUE,
                !.right = rb_set_vals(n.right, n.k, n.v, TRUE, left_size,
                                      rb_get_right_clone(left_clone), n.right),
                !.v = IF vv # None THEN vv[1] ELSE n.v]
    ELSE n

\* "Rotate Right" block of insert
rb_rotate_right(n) ==
    IF rb_is_red(n.left) /\ rb_is_left_red(n.left)
    THEN LET left_clone == n.left
             new_left == rb_get_left_clone(left_clone)
             left_size == rb_size(new_left)
             kk == rb_get_key(left_clone)
             vv == rb_get_val(left_clone)
         IN  [n EXCEPT
                !.left = new_left,
                !.color = TRUE,
                !.right = rb_set_vals(n.right, n.k, n.v, TRUE, left_size,
                                      rb_get_right_clone(left_clone), n.right),
                !.k = IF kk # None THEN kk[1] ELSE n.k,
                !.v = IF vv # None THEN vv[1] ELSE n.v]
    ELSE n

\* rb_flip_colors that recolours the node and leaves its children red
rb_flip_colors_node_only(n) ==
    IF rb_is_red(n.left) /\ rb_is_red(n.right)
    THEN [n EXCEPT !.color = TRUE]
    ELSE n

\* "Flip colors" block of insert
rb_flip_colors(n) ==
    IF rb_is_red(n.left) /\ rb_is_red(n.right)
    THEN [n EXCEPT !.color = TRUE,
                   !.left = rb_set_color(n.left, FALSE),
                   !.right = rb_set_color(n.right, FALSE)]
    ELSE n

\* the size recomputation that ends the Node arm of insert
rb_update_size(n) ==
    [n EXCEPT !.size = rb_size(n.left) + rb_size(n.right) + 1]

RECURSIVE rb_insert(_, _, _)
\* rb_insert without the "Rotate Left" block
rb_insert_no_rotate_left(t, key, value) ==
    IF RB_IsNode(t)
    THEN LET d == IF key < t.k
                  THEN [t EXCEPT !.left = rb_insert(t.left, key, value)]
                  ELSE IF key > t.k
                  THEN [t EXCEPT !.right = rb_insert(t.right, key, value)]
                  ELSE t
         IN  rb_update_size(rb_flip_colors(rb_rotate_right(d)))
    ELSE RB_Node(key, value, TRUE, 1, RB_NIL, RB_NIL)

rb_insert(t, key, value) ==
    IF RB_IsNode(t)
    THEN LET d == IF key < t.k
                  THEN [t EXCEPT !.left = rb_insert(t.left, key, value)]
                  ELSE IF key > t.k
                  THEN [t EXCEPT !.right = rb_insert(t.right, key, value)]
                  ELSE t
         IN  rb_update_size(rb_flip_colors(rb_rotate_right(rb_rotate_left(d))))
    ELSE RB_Node(key, value, TRUE, 1, RB_NIL, RB_NIL)

\* rb_put without `self.set_color(false)`
rb_put_keeps_color(t, key, value) == rb_insert(t, key, value)

\* put: insert, then the root is made black
rb_put(t, key, value) == rb_set_color(rb_insert(t, key, value), FALSE)

RECURSIVE rb_get_height(_)
rb_get_height(t) ==
    IF RB_IsNode(t)
    THEN 1 + Max2(rb_get_height(t.left), rb_get_height(t.right))
    ELSE 0

\* rb_height returning the number of nodes on the longest path
rb_height_counts_nodes(t) ==
    LET height_rbtree == rb_get_height(t)
    IN  IF height_rbtree > 0 THEN Some(height_rbtree) ELSE None

rb_height(t) ==
    LET height_rbtree == rb_get_height(t)
    IN  IF height_rbtree > 0 THEN Some(height_rbtree - 1) ELSE None

rb_is_empty(t) == ~RB_IsNode(t)

rb_contains(t, key) == rb_get(t, key) # None

RECURSIVE rb_min(_)
rb_min(t) ==
    IF RB_IsNode(t)
    THEN LET l == rb_min(t.left) IN IF l # None THEN l ELSE Some(t.k)
    ELSE None

RECURSIVE rb_max(_)
rb_max(t) ==
    IF RB_IsNode(t)
    THEN LET l == rb_max(t.right) IN IF l # None THEN l ELSE Some(t.k)
    ELSE None

RECURSIVE rb_pre_order(_)
\* rb_pre_order visiting the right subtree before the left one
rb_pre_order_right_first(t) ==
    IF RB_IsNode(t)
    THEN <<<<t.k, t.v>>>> \o rb_pre_order(t.right) \o rb_pre_order(t.left)
    ELSE <<>>

rb_pre_order(t) ==
    IF RB_IsNode(t)
    THEN <<<<t.k, t.v>>>> \o rb_pre_order(t.left) \o rb_pre_order(t.right)
    ELSE <<>>

RECURSIVE rb_in_order(_)
rb_in_order(t) ==
    IF RB_IsNode(t)
    THEN rb_in_order(t.left) \o <<<<t.k, t.v>>>> \o rb_in_order(t.right)
    ELSE <<>>

RECURSIVE rb_post_order(_)
rb_post_order(t) ==
    IF RB_IsNode(t)
    THEN rb_post_order(t.left) \o rb_post_order(t.right) \o <<<<t.k, t.v>>>>
    ELSE <<>>

RECURSIVE rb_level_order(_, _)
rb_level_order(t, level) ==
    IF RB_IsNode(t)
    THEN IF level = 0 THEN <<<<t.k, t.v>>>>
         ELSE rb_level_order(t.left, level - 1)
              \o rb_level_order(t.right, level - 1)
    ELSE <<>>

\* ============================================================== bst.rs
BST_NIL == [tag |-> "NIL"]
BST_Node(key, val, s, l, r) ==
    [tag |-> "Node", k |-> key, v |-> val, size |-> s, left |-> l, right |-> r]
BST_IsNode(t) == t.tag = "Node"

bst_new == BST_NIL

bst_size(t) == IF BST_IsNode(t) THEN t.size ELSE 0

RECURSIVE bst_get(_, _)
bst_get(t, key) ==
    IF BST_IsNode(t)
    THEN IF key < t.k THEN bst_get(t.left, key)
         ELSE IF key > t.k THEN bst_get(t.right, key)
         ELSE Some(t.v)
    ELSE None

RECURSIVE bst_put(_, _, _)
\* bst_put with `*size += 1` on the way back up instead of the recomputation
bst_put_counts_calls(t, key, value) ==
    IF BST_IsNode(t)
    THEN LET d == IF key < t.k
                  THEN [t EXCEPT !.left = bst_put(t.left, key, value)]
                  ELSE IF key > t.k
                  THEN [t EXCEPT !.right = bst_put(t.right, key, value)]
                  ELSE t
         IN  [d EXCEPT !.size = d.size + 1]
    ELSE BST_Node(key, value, 1, BST_NIL, BST_NIL)

bst_put(t, key, value) ==
    IF BST_IsNode(t)
    THEN LET d == IF key < t.k
                  THEN [t EXCEPT !.left = bst_put(t.left, key, value)]
                  ELSE IF key > t.k
                  THEN [t EXCEPT !.right = bst_put(t.right, key, value)]
                  ELSE t
         IN  [d EXCEPT !.size = 1 + bst_size(d.left) + bst_size(d.right)]
    ELSE BST_Node(key, value, 1, BST_NIL, BST_NIL)

RECURSIVE bst_get_height(_)
\* bst_get_height taking the shorter of the two subtrees
bst_get_height_min(t) ==
    IF BST_IsNode(t)
    THEN LET l == bst_get_height(t.left)
             r == bst_get_height(t.right)
         IN  1 + (IF l <= r THEN l ELSE r)
    ELSE 0

bst_get_height(t) ==
    IF BST_IsNode(t)
    THEN 1 + Max2(bst_get_height(t.left), bst_get_height(t.right))
    ELSE 0

bst_height(t) ==
    LET h == bst_get_height(t)
    IN  IF h > 0 THEN Some(h - 1) ELSE None

bst_is_empty(t) == ~BST_IsNode(t)

bst_contains(t, key) == bst_get(t, key) # None

RECURSIVE bst_min(_)
bst_min(t) ==
    IF BST_IsNode(t)
    THEN LET l == bst_min(t.left) IN IF l # None THEN l ELSE Some(t.k)
    ELSE None

RECURSIVE bst_max(_)
bst_max(t) ==
    IF BST_IsNode(t)
    THEN LET l == bst_max(t.right) IN IF l # None THEN l ELSE Some(t.k)
    ELSE None

RECURSIVE bst_pre_order(_)
bst_pre_order(t) ==
    IF BST_IsNode(t)
    THEN <<<<t.k, t.v>>>> \o bst_pre_order(t.left) \o bst_pre_order(t.right)
    ELSE <<>>

RECURSIVE bst_in_order(_)
bst_in_order(t) ==
    IF BST_IsNode(t)
    THEN bst_in_order(t.left) \o <<<<t.k, t.v>>>> \o bst_in_order(t.right)
    ELSE <<>>

RECURSIVE bst_post_order(_)
\* bst_post_order visiting the right subtree before the left one
bst_post_order_right_first(t) ==
    IF BST_IsNode(t)
    THEN bst_post_order(t.right) \o bst_post_order(t.left) \o <<<<t.k, t.v>>>>
    ELSE <<>>

bst_post_order(t) ==
    IF BST_IsNode(t)
    THEN bst_post_order(t.left) \o bst_post_order(t.right) \o <<<<t.k, t.v>>>>
    ELSE <<>>

RECURSIVE bst_level_order(_, _)
bst_level_order(t, level) ==
    IF BST_IsNode(t)
    THEN IF level = 0 THEN <<<<t.k, t.v>>>>
         ELSE bst_level_order(t.left, level - 1)
              \o bst_level_order(t.right, level - 1)
    ELSE <<>>

RECURSIVE bst_invert(_)
\* bst_invert without the two recursive calls: only the children of the
\* root change places
bst_invert_root_only(t) ==
    IF BST_IsNode(t)
    THEN [t EXCEPT !.left = t.right, !.right = t.left]
    ELSE t

\* invert: both subtrees are inverted, then swapped; k, v and size stay
bst_invert(t) ==
    IF BST_IsNode(t)
    THEN [t EXCEPT !.left = bst_invert(t.right),
                   !.right = bst_invert(t.left)]
    ELSE t

\* ============================================================ btree.rs
M == 4

Entry(k, v, n) == [key |-> k, val |-> v, next |-> n]

bt_new == [root |-> <<>>, size |-> 0, height |-> 0]

bt_size(t) == t.size

\* the default SedgewickMap::is_empty, which BalancedTree does not override
bt_is_empty(t) == bt_size(t) = 0

\* the scan `for n in node` of search at height 0, from 0-based index i
RECURSIVE bt_scan(_, _, _)
bt_scan(node, key, i) ==
    IF i < Len(node)
    THEN IF key = node[i + 1].key THEN node[i + 1].val
         ELSE bt_scan(node, key, i + 1)
    ELSE None

RECURSIVE bt_search_pos(_, _, _)
\* bt_search_pos comparing with `le` instead of `lt`
bt_search_pos_inclusive(node, key, j) ==
    IF j < Len(node)
    THEN IF (j + 1 = Len(node)) \/ key <= node[j + 2].key THEN j
         ELSE bt_search_pos(node, key, j + 1)
    ELSE j

\* the loop of search above height 0: the first 0-based j with
\* j + 1 = len or key < node[j + 1].key; len when there is none
bt_search_pos(node, key, j) ==
    IF j < Len(node)
    THEN IF (j + 1 = Len(node)) \/ key < node[j + 2].key THEN j
         ELSE bt_search_pos(node, key, j + 1)
    ELSE j

RECURSIVE bt_search(_, _, _)
bt_search(node, key, height) ==
    IF height = 0
    THEN bt_scan(node, key, 0)
    ELSE LET j == bt_search_pos(node, key, 0)
         IN  IF j < Len(node)
             THEN bt_search(node[j + 1].next, key, height - 1)
             ELSE None

bt_get(t, key) ==
    IF bt_is_empty(t) THEN None ELSE bt_search(t.root, key, t.height)

\* the external-node loop of insert: the first 0-based j with key < h[j].key
RECURSIVE bt_leaf_pos(_, _, _)
bt_leaf_pos(h, key, j) ==
    IF j < Len(h)
    THEN IF key < h[j + 1].key THEN j ELSE bt_leaf_pos(h, key, j + 1)
    ELSE j

\* the internal-node loop of insert: the first 0-based j with
\* j + 1 = len or key < h[j + 1].key; len when there is none
RECURSIVE bt_insert_pos(_, _, _)
bt_insert_pos(h, key, j) ==
    IF j < Len(h)
    THEN IF (j + 1 = Len(h)) \/ key < h[j + 2].key THEN j
         ELSE bt_insert_pos(h, key, j + 1)
    ELSE j

bt_swap(h, a, b) == [h EXCEPT ![a + 1] = h[b + 1], ![b + 1] = h[a + 1]]

\* the loop `while i > j` of insert that opens slot j (i, j are 0-based)
RECURSIVE bt_shift(_, _, _)
bt_shift(h, i, j) ==
    IF i > j
    THEN bt_shift(IF i = Len(h) THEN Append(h, h[i]) ELSE bt_swap(h, i, i - 1),
                  i - 1, j)
    ELSE h

\* bt_split moving one entry fewer into the new sibling
bt_split_uneven(h) ==
    [h |-> SubSeq(h, 1, (M \div 2) + 1) \o SubSeq(h, M + 1, Len(h)),
     u |-> Some(SubSeq(h, (M \div 2) + 2, M))]

\* "Split node in half": M / 2 times t.push(h.remove(M / 2))
bt_split(h) ==
    [h |-> SubSeq(h, 1, M \div 2) \o SubSeq(h, M + 1, Len(h)),
     u |-> Some(SubSeq(h, (M \div 2) + 1, M))]

\* bt_place without the shifting loop: slot j is overwritten
bt_place_no_shift(h, j, t) ==
    LET stored == IF j = Len(h) THEN Append(h, t) ELSE [h EXCEPT ![j + 1] = t]
    IN  IF Len(stored) < M THEN [h |-> stored, u |-> None]
        ELSE bt_split(stored)

\* the tail of insert: shift, store t at slot j, split when M entries
bt_place(h, j, t) ==
    LET shifted == bt_shift(h, Len(h), j)
        stored == IF j = Len(shifted) THEN Append(shifted, t)
                  ELSE [shifted EXCEPT ![j + 1] = t]
    IN  IF Len(stored) < M THEN [h |-> stored, u |-> None]
        ELSE bt_split(stored)

\* bt_sibling_entry taking the sibling's last key as separator
bt_sibling_entry_last_key(u) == Entry(u[Len(u)].key, None, u)

\* the entry insert builds for the sibling u returned by a child's split
bt_sibling_entry(u) == Entry(u[1].key, None, u)

\* insert returns the updated node h and the optional split-off sibling u
RECURSIVE bt_insert(_, _, _, _)
bt_insert(h, key, val, height) ==
    LET t == Entry(key, Some(val), <<>>)
    IN  IF height = 0
        THEN bt_place(h, bt_leaf_pos(h, key, 0), t)
        ELSE LET j == bt_insert_pos(h, key, 0)
             IN  IF j < Len(h)
                 THEN LET r == bt_insert(h[j + 1].next, key, val, height - 1)
                          h1 == [h EXCEPT ![j + 1].next = r.h]
                      IN  IF r.u # None
                          THEN bt_place(h1, j + 1, bt_sibling_entry(r.u[1]))
                          ELSE [h |-> h1, u |-> None]
                 ELSE bt_place(h, j, t)

\* bt_put without `self.height += 1`
bt_put_forgets_height(t, key, value) ==
    LET r == bt_insert(t.root, key, value, t.height)
    IN  IF r.u # None
        THEN [root |-> <<Entry(r.h[1].key, None, r.h),
                         Entry(r.u[1][1].key, None, r.u[1])>>,
              size |-> t.size + 1,
              height |-> t.height]
        ELSE [root |-> r.h, size |-> t.size + 1, height |-> t.height]

bt_put(t, key, value) ==
    LET r == bt_insert(t.root, key, value, t.height)
    IN  IF r.u # None
        THEN [root |-> <<Entry(r.h[1].key, None, r.h),
                         Entry(r.u[1][1].key, None, r.u[1])>>,
              size |-> t.size + 1,
              height |-> t.height + 1]
        ELSE [root |-> r.h, size |-> t.size + 1, height |-> t.height]

\* bt_height counting the levels of a tree that has a root entry
bt_height_counts_levels(t) ==
    Some(IF t.root = <<>> THEN 0 ELSE t.height + 1)

bt_height(t) == Some(t.height)

\* the default SedgewickMap::contains, which BalancedTree does not override
bt_contains(t, key) == bt_get(t, key) # None

\* the loop of min: follow the first entry's child while it is non-empty
RECURSIVE bt_min_loop(_)
bt_min_loop(node) ==
    IF node[1].next # <<>> THEN bt_min_loop(node[1].next)
    ELSE Some(node[1].key)

\* bt_min returning the key of the root's first entry
bt_min_root_key(t) ==
    IF bt_is_empty(t) THEN None ELSE Some(t.root[1].key)

bt_min(t) ==
    IF bt_is_empty(t) THEN None ELSE bt_min_loop(t.root)

\* the loop of max: follow the last entry's child while it is non-empty
RECURSIVE bt_max_loop(_)
bt_max_loop(node) ==
    IF node[Len(node)].next # <<>> THEN bt_max_loop(node[Len(node)].next)
    ELSE Some(node[Len(node)].key)

\* bt_max returning the key of the root's last entry
bt_max_root_key(t) ==
    IF bt_is_empty(t) THEN None ELSE Some(t.root[Len(t.root)].key)

bt_max(t) ==
    IF bt_is_empty(t) THEN None ELSE bt_max_loop(t.root)

\* =============================================================== lib.rs
Traversals == {"PreOrder", "InOrder", "PostOrder", "LevelOrder"}

\* A call result: panicked is TRUE when the call aborted, else ret is the
\* returned value.
Returned(x) == [panicked |-> FALSE, ret |-> x]
Panicked == [panicked |-> TRUE, ret |-> <<>>]

\* Option::expect(msg): the contained value, or an abort carrying msg
Expect(opt, msg) ==
    IF opt = None THEN [panicked |-> TRUE, ret |-> msg] ELSE Returned(opt[1])

\* bst_index answering 0 for a missing key
bst_index_lenient(t, index) ==
    IF bst_get(t, index) = None THEN Returned(0)
    ELSE Returned(bst_get(t, index)[1])

\* Index<&K> for BST
bst_index(t, index) ==
    Expect(bst_get(t, index), "Missing entry for key in BST")

\* Index<&K> for BalancedTree
bt_index(t, index) ==
    Expect(bt_get(t, index), "Missing entry for key in Balanced Tree")

\* the loop `for level in 0..=h { self.level_order(&mut vec, level) }`
RECURSIVE rb_levels(_, _, _)
rb_levels(t, level, h) ==
    IF level > h THEN <<>>
    ELSE rb_level_order(t, level) \o rb_levels(t, level + 1, h)

RECURSIVE bst_levels(_, _, _)
\* bst_levels over `0..h` instead of `0..=h`: the deepest level is not
\* visited
bst_levels_exclusive(t, level, h) ==
    IF level >= h THEN <<>>
    ELSE bst_level_order(t, level) \o bst_levels(t, level + 1, h)

bst_levels(t, level, h) ==
    IF level > h THEN <<>>
    ELSE bst_level_order(t, level) \o bst_levels(t, level + 1, h)

\* TreeTraversal::traverse for RedBlackTree; height().unwrap() aborts on None
rb_traverse(t, traverse) ==
    CASE traverse = "PreOrder" -> Returned(rb_pre_order(t))
      [] traverse = "InOrder" -> Returned(rb_in_order(t))
      [] traverse = "PostOrder" -> Returned(rb_post_order(t))
      [] traverse = "LevelOrder" ->
            IF rb_height(t) = None THEN Panicked
            ELSE Returned(rb_levels(t, 0, rb_height(t)[1]))

\* TreeTraversal::traverse for BST
bst_traverse(t, traverse) ==
    CASE traverse = "PreOrder" -> Returned(bst_pre_order(t))
      [] traverse = "InOrder" -> Returned(bst_in_order(t))
      [] traverse = "PostOrder" -> Returned(bst_post_order(t))
      [] traverse = "LevelOrder" ->
            IF bst_height(t) = None THEN Panicked
            ELSE Returned(bst_levels(t, 0, bst_height(t)[1]))

\* ============================================================== the system
\* the record of a call: which tree, which operation, its argument and its
\* result
Call(tr, o, a, r) == [tree |-> tr, op |-> o, arg |-> a, res |-> r]
NoCall == Call("none", "none", 0, Returned(<<>>))
Unit == Returned(<<>>)

Init ==
    /\ bst = bst_new
    /\ rb = rb_new
    /\ bt = bt_new
    /\ cnt = [k \in KeyUniverse |-> 0]
    /\ out = NoCall
    /\ hist = <<>>

\* put(key, Val(key, n)) on the unbalanced and on the red-black tree
Put(key) ==
    /\ bst' = bst_put(bst, key, Val(key, cnt[key] + 1))
    /\ rb' = rb_put(rb, key, Val(key, cnt[key] + 1))
    /\ cnt' = [cnt EXCEPT ![key] = @ + 1]
    /\ out' = Call("both", "put", 0, Unit)
    /\ UNCHANGED <<bt, hist>>

Next == \E key \in Keys : TotalPuts < MaxPuts /\ Put(key)

Spec == Init /\ [][Next]_vars

\* ------------------------------------------- the read-only map operations
BinaryTrees == {"bst", "rb"}

\* new(): a fresh pair of empty trees replaces the current one
New ==
    /\ bst' = bst_new
    /\ rb' = rb_new
    /\ cnt' = [k \in KeyUniverse |-> 0]
    /\ out' = Call("both", "new", 0, Unit)
    /\ UNCHANGED <<bt, hist>>

Query(tr, o, a, r) ==
    /\ out' = Call(tr, o, a, r)
    /\ UNCHANGED <<bst, rb, bt, cnt, hist>>

Size(tr) ==
    Query(tr, "size", 0,
          Returned(IF tr = "bst" THEN bst_size(bst) ELSE rb_size(rb)))

Get(tr, key) ==
    Query(tr, "get", key,
          Returned(IF tr = "bst" THEN bst_get(bst, key) ELSE rb_get(rb, key)))

Height(tr) ==
    Query(tr, "height", 0,
          Returned(IF tr = "bst" THEN bst_height(bst) ELSE rb_height(rb)))

IsEmpty(tr) ==
    Query(tr, "is_empty", 0,
          Returned(IF tr = "bst" THEN bst_is_empty(bst) ELSE rb_is_empty(rb)))

Contains(tr, key) ==
    Query(tr, "contains", key,
          Returned(IF tr = "bst" THEN bst_contains(bst, key)
                   ELSE rb_contains(rb, key)))

Min(tr) ==
    Query(tr, "min", 0,
          Returned(IF tr = "bst" THEN bst_min(bst) ELSE rb_min(rb)))

Max(tr) ==
    Query(tr, "max", 0,
          Returned(IF tr = "bst" THEN bst_max(bst) ELSE rb_max(rb)))

Traverse(tr, o) ==
    Query(tr, o, 0,
          IF tr = "bst" THEN bst_traverse(bst, o) ELSE rb_traverse(rb, o))

NextQ ==
    \/ \E key \in KeysQ : TotalPuts < MaxPutsQ /\ Put(key)
    \/ New
    \/ \E tr \in BinaryTrees : Size(tr)
    \/ \E tr \in BinaryTrees, key \in KeysQ : Get(tr, key)
    \/ \E tr \in BinaryTrees : Height(tr)
    \/ \E tr \in BinaryTrees : IsEmpty(tr)
    \/ \E tr \in BinaryTrees, key \in KeysQ : Contains(tr, key)
    \/ \E tr \in BinaryTrees : Min(tr)
    \/ \E tr \in BinaryTrees : Max(tr)
    \/ \E tr \in BinaryTrees, o \in Traversals : Traverse(tr, o)

SpecQ == Init /\ [][NextQ]_vars

\* ------------------------------------------------------ the multiway tree
\* put(key, Val(key, n)) on the multiway tree
BTPut(key) ==
    /\ bt' = bt_put(bt, key, Val(key, cnt[key] + 1))
    /\ cnt' = [cnt EXCEPT ![key] = @ + 1]
    /\ out' = Call("bt", "put", 0, Unit)
    /\ UNCHANGED <<bst, rb, hist>>

\* any sequence of puts, keys may repeat
NextBT == \E key \in KeysBT : TotalPuts < MaxPutsBT /\ BTPut(key)

SpecBT == Init /\ [][NextBT]_vars

\* any sequence of puts of pairwise distinct keys
NextBTDistinct == \E key \in KeysBTD : cnt[key] = 0 /\ BTPut(key)

SpecBTDistinct == Init /\ [][NextBTDistinct]_vars

\* ------------------------------------------------- all three structures
\* put(key, Val(key, n)) on each of the three trees
PutAll(key) ==
    /\ bst' = bst_put(bst, key, Val(key, cnt[key] + 1))
    /\ rb' = rb_put(rb, key, Val(key, cnt[key] + 1))
    /\ bt' = bt_put(bt, key, Val(key, cnt[key] + 1))
    /\ cnt' = [cnt EXCEPT ![key] = @ + 1]
    /\ out' = Call("all", "put", 0, Unit)
    /\ UNCHANGED hist

\* the trees that implement Index<&K>
IndexedTrees == {"bst", "bt"}

\* tree[&key]
Index(tr, key) ==
    Query(tr, "index", key,
          IF tr = "bst" THEN bst_index(bst, key) ELSE bt_index(bt, key))

NextAll == \E key \in KeysAll : TotalPuts < MaxPutsAll /\ PutAll(key)

SpecAll == Init /\ [][NextAll]_vars

NextIdx ==
    \/ \E key \in KeysIdx : TotalPuts < MaxPutsIdx /\ PutAll(key)
    \/ \E tr \in IndexedTrees, key \in KeysIdx : Index(tr, key)

SpecIdx == Init /\ [][NextIdx]_vars

\* ------------------------------------------ sessions that record the order
\* put(key, Val(key, n)) on the unbalanced and on the red-black tree, the
\* key being appended to the history
PutLogged(key) ==
    /\ bst' = bst_put(bst, key, Val(key, cnt[key] + 1))
    /\ rb' = rb_put(rb, key, Val(key, cnt[key] + 1))
    /\ cnt' = [cnt EXCEPT ![key] = @ + 1]
    /\ out' = Call("both", "put", key, Unit)
    /\ hist' = Append(hist, key)
    /\ UNCHANGED bt

\* any sequence of puts, keys may repeat
NextLog == \E key \in KeysLog : Len(hist) < MaxPutsLog /\ PutLogged(key)

SpecLog == Init /\ [][NextLog]_vars

\* ------------------------------------------- sessions that invert the tree
\* put(key, Val(key, n)) on the unbalanced tree, the key being appended to
\* the history
BSTPut(key) ==
    /\ bst' = bst_put(bst, key, Val(key, cnt[key] + 1))
    /\ cnt' = [cnt EXCEPT ![key] = @ + 1]
    /\ out' = Call("bst", "put", key, Unit)
    /\ hist' = Append(hist, key)
    /\ UNCHANGED <<rb, bt>>

\* invert() on the unbalanced tree; the history records it as 0
Invert ==
    /\ bst' = bst_invert(bst)
    /\ out' = Call("bst", "invert", 0, Unit)
    /\ hist' = Append(hist, 0)
    /\ UNCHANGED <<rb, bt, cnt>>

\* puts and inverts in any order
NextInv ==
    \/ \E key \in KeysInv : Len(hist) < MaxOpsInv /\ BSTPut(key)
    \/ Len(hist) < MaxOpsInv /\ Invert

SpecInv == Init /\ [][NextInv]_vars

\* ------------------------------------------------- shapes and measures
\* the set of black-node counts over all root-to-NIL paths of t
RECURSIVE RBBlackCounts(_)
RBBlackCounts(t) ==
    IF RB_IsNode(t)
    THEN {c + (IF t.color THEN 0 ELSE 1) :
            c \in RBBlackCounts(t.left) \cup RBBlackCounts(t.right)}
    ELSE {0}

\* the subtrees of t that are nodes
RECURSIVE RBNodes(_)
RBNodes(t) ==
    IF RB_IsNode(t) THEN {t} \cup RBNodes(t.left) \cup RBNodes(t.right) ELSE {}

RECURSIVE BSTNodes(_)
BSTNodes(t) ==
    IF BST_IsNode(t) THEN {t} \cup BSTNodes(t.left) \cup BSTNodes(t.right) ELSE {}

KeysOf(pairs) == [i \in 1..Len(pairs) |-> pairs[i][1]]
StrictlyIncreasing(s) == \A i \in 1..(Len(s) - 1) : s[i] < s[i + 1]
Range(s) == {s[i] : i \in 1..Len(s)}
StrictlyDecreasing(s) == \A i \in 1..(Len(s) - 1) : s[i] > s[i + 1]

\* puts of distinct keys in strictly ascending or strictly descending order
NextRun ==
    \E key \in KeysRun :
        /\ \/ StrictlyIncreasing(Append(hist, key))
           \/ StrictlyDecreasing(Append(hist, key))
        /\ PutLogged(key)

SpecRun == Init /\ [][NextRun]_vars

\* ------------------------------------------------- the thousand-key runs
\* the number of keys of test_left_rotate_one_thousand and
\* test_right_rotate_one_thousand
ThousandKeys == 1000

\* the i-th key of `for i in 1..=1_000_i32` (up) and of
\* `for i in (1..=1_000_i32).rev()` (not up)
RunKey(i, up) == IF up THEN i ELSE ThousandKeys + 1 - i

\* the iterations of the loop on a tree that starts empty, up to the n-th,
\* each `btree.put(key, key + 1)`; the iteration counter is read off the
\* tree, whose size is the number of puts made (btree.rs:172), and the
\* iterations still to make are made half by half
RECURSIVE bt_put_run(_, _, _)
bt_put_run(t, n, up) ==
    IF bt_size(t) >= n THEN t
    ELSE IF bt_size(t) + 1 = n
         THEN bt_put(t, RunKey(n, up), RunKey(n, up) + 1)
         ELSE bt_put_run(bt_put_run(t, (bt_size(t) + n) \div 2, up), n, up)

\* the first n iterations of the loop on a new tree; cnt counts the puts of
\* the keys of KeyUniverse only
Run(n, up) ==
    LET keys == [i \in 1..n |-> RunKey(i, up)]
    IN  /\ hist = <<>>
        /\ bt' = bt_put_run(bt, n, up)
        /\ cnt' = [k \in KeyUniverse |->
                      cnt[k] + (IF k \in Range(keys) THEN 1 ELSE 0)]
        /\ out' = Call("bt", "put", keys[n], Unit)
        /\ hist' = keys
        /\ UNCHANGED <<bst, rb>>

\* the loop run to its end, or stopped after up to MaxShortRun iterations
RunLengths == (1..MaxShortRun) \cup {ThousandKeys}

NextThousand == \E n \in RunLengths, up \in BOOLEAN : Run(n, up)

SpecThousand == Init /\ [][NextThousand]_vars

\* ================================================================ claims

\* C1: after every put, every path from the root of the red-black tree to a
\* NIL slot passes through the same number of black nodes.
C1_PerfectBlackBalance == Cardinality(RBBlackCounts(rb)) = 1

\* C2: after any sequence of put calls the red-black tree's size() equals
\* the number of distinct keys put and the number of pairs returned by
\* traverse in each of the four orders.
C2_RBCount ==
    KeysPut # {} =>
        /\ rb_size(rb) = Cardinality(KeysPut)
        /\ \A o \in Traversals :
              /\ ~rb_traverse(rb, o).panicked
              /\ Len(rb_traverse(rb, o).ret) = rb_size(rb)

\* ------------------------------------------------ multiway tree measures
\* the leaf-level entries below node, left to right
RECURSIVE BTLeafEntries(_, _)
RECURSIVE BTLeafEntriesFrom(_, _, _)
BTLeafEntries(node, height) ==
    IF height = 0 THEN node ELSE BTLeafEntriesFrom(node, height, 1)
BTLeafEntriesFrom(node, height, i) ==
    IF i > Len(node) THEN <<>>
    ELSE BTLeafEntries(node[i].next, height - 1)
         \o BTLeafEntriesFrom(node, height, i + 1)

BTKeysBelow(node, height) ==
    {BTLeafEntries(node, height)[i].key :
        i \in 1..Len(BTLeafEntries(node, height))}

SetMin(S) == CHOOSE x \in S : \A y \in S : x <= y

\* the internal nodes of the tree, each with its height and whether it lies
\* on the leftmost path from the root
RECURSIVE BTInternalNodes(_, _, _)
BTInternalNodes(node, height, leftmost) ==
    IF height = 0 THEN {}
    ELSE {[node |-> node, height |-> height, leftmost |-> leftmost]}
         \cup UNION {BTInternalNodes(node[i].next, height - 1,
                                     leftmost /\ i = 1) : i \in 1..Len(node)}

\* C3: when a key k is put more than once into the multiway tree, get(k)
\* returns the value given in the first put of k.
C3_BTFirstValueKept ==
    \A k \in KeysPut : bt_get(bt, k) = Some(Val(k, 1))

\* C4: the multiway tree's size() equals the number of distinct keys that
\* were put, and so does the number of stored leaf entries.
C4_BTCount ==
    /\ bt_size(bt) = Cardinality(KeysPut)
    /\ Len(BTLeafEntries(bt.root, bt.height)) = Cardinality(KeysPut)

\* C5: after puts of distinct keys, in every internal node of the multiway
\* tree the key of each entry, the first included, equals the smallest key
\* stored in the subtree reached through that entry.
C5_SeparatorIsMin ==
    \A n \in BTInternalNodes(bt.root, bt.height, TRUE) :
        \A i \in 1..Len(n.node) :
            n.node[i].key = SetMin(BTKeysBelow(n.node[i].next, n.height - 1))

\* C5 as amended: every entry except the first entry of a node on the
\* leftmost path has the smallest key of its subtree; the first entry of a
\* node on the leftmost path has a key that is not smaller than the smallest
\* key of its subtree.
C5_SeparatorIsMinExceptLeftmost ==
    \A n \in BTInternalNodes(bt.root, bt.height, TRUE) :
        \A i \in 1..Len(n.node) :
            IF n.leftmost /\ i = 1
            THEN n.node[i].key
                    >= SetMin(BTKeysBelow(n.node[i].next, n.height - 1))
            ELSE n.node[i].key
                    = SetMin(BTKeysBelow(n.node[i].next, n.height - 1))

\* a tree of height 2 whose smallest key was put after the root's first
\* separator was fixed, and whose second subtree has split
C5_Witness ==
    /\ bt.height = 2
    /\ bt.root[1].key # SetMin(BTKeysBelow(bt.root, bt.height))
    /\ Len(bt.root[2].next) >= 3

\* C8: after puts of pairwise distinct keys into the multiway tree, get(k)
\* returns the value put with k for every key k that was put.
C8_BTRoundTrip ==
    \A k \in KeysPut : bt_get(bt, k) = Some(Val(k, 1))

\* the root has split twice and an internal node below the root has split
\* since
C8_Witness ==
    /\ bt.height = 2
    /\ Len(bt.root) >= 3
    /\ \A k \in KeysPut : bt_get(bt, k) = Some(Val(k, 1))

\* C6: new, size, get, put, height, is_empty, contains, min, max and
\* traverse in each of the four orders return normally on the unbalanced
\* and on the red-black tree in every reachable state, and on the empty
\* tree every traverse returns the empty sequence.
C6_NoAbort ==
    /\ ~out.res.panicked
    /\ (out.op \in Traversals /\ KeysPut = {}) => out.res.ret = <<>>

\* C7: for every key k that was put, get(k) on the unbalanced and on the
\* red-black tree returns the value given in the first put of k.
C7_FirstValueKept ==
    \A k \in KeysPut :
        /\ bst_get(bst, k) = Some(Val(k, 1))
        /\ rb_get(rb, k) = Some(Val(k, 1))

\* a key was put twice into a red-black tree that has rotated, and its
\* first value is still found in both trees
C7_Witness ==
    /\ \E k \in KeysPut : cnt[k] >= 2 /\ rb_get(rb, k) = Some(Val(k, 1))
                             /\ bst_get(bst, k) = Some(Val(k, 1))
    /\ RB_IsNode(rb) /\ RB_IsNode(rb.left) /\ RB_IsNode(rb.right)
    /\ Cardinality(KeysPut) >= 4

\* C9: traverse(InOrder) of the unbalanced and of the red-black tree yields
\* exactly the distinct keys that were put, each once, strictly increasing.
C9_InOrderSorted ==
    /\ StrictlyIncreasing(KeysOf(bst_in_order(bst)))
    /\ Range(KeysOf(bst_in_order(bst))) = KeysPut
    /\ StrictlyIncreasing(KeysOf(rb_in_order(rb)))
    /\ Range(KeysOf(rb_in_order(rb))) = KeysPut

\* six keys are stored and rotations have moved another key into the root
\* of the red-black tree than the one the unbalanced tree keeps there
C9_Witness ==
    /\ Cardinality(KeysPut) >= 6
    /\ Len(rb_in_order(rb)) >= 6
    /\ Len(bst_in_order(bst)) >= 6
    /\ rb.k # bst.k

\* C10: after every put, no node of the red-black tree has both its left
\* child and its right child red.
C10_NoTwoRedChildren ==
    \A n \in RBNodes(rb) : ~(rb_is_red(n.left) /\ rb_is_red(n.right))

\* a colour flip has happened: some node has two black children that are
\* nodes
C10_Witness ==
    \E n \in RBNodes(rb) :
        /\ RB_IsNode(n.left) /\ ~n.left.color
        /\ RB_IsNode(n.right) /\ ~n.right.color

\* C11: after every put, no node of the red-black tree has a red right
\* child.
C11_NoRedRightChild ==
    \A n \in RBNodes(rb) : ~rb_is_red(n.right)

\* a left rotation has happened: the red-black tree's root is not the first
\* key put (which the unbalanced tree keeps on top), and the node rotated
\* down hangs as a red left child with a subtree of its own
C11_Witness ==
    /\ RB_IsNode(rb) /\ rb.k # bst.k
    /\ \E n \in RBNodes(rb) :
          /\ rb_is_red(n.left)
          /\ RB_IsNode(n.left.left) \/ RB_IsNode(n.left.right)

\* C12: after every put, the root of the red-black tree is black.
C12_RootBlack == RB_IsNode(rb) => ~rb.color

\* the insertion left the root red and put made it black: three keys are
\* stored and the root's two children are black, so the colour flip was at
\* the root
C12_Witness ==
    /\ Cardinality(KeysPut) = 3
    /\ RB_IsNode(rb) /\ ~rb.color
    /\ RB_IsNode(rb.left) /\ ~rb.left.color
    /\ RB_IsNode(rb.right) /\ ~rb.right.color

\* every node of the multiway tree, leaves included, with its height above
\* the leaf level as the height counter has it
RECURSIVE BTNodes(_, _)
BTNodes(node, height) ==
    {[node |-> node, height |-> height]}
    \cup (IF height = 0 THEN {}
          ELSE UNION {BTNodes(node[i].next, height - 1) : i \in 1..Len(node)})

\* C13: in the multiway tree the entries at depth equal to the height
\* counter carry a value and have no child, and the entries above that
\* depth carry no value and have a non-empty child node.
C13_DepthInvariant ==
    \A n \in BTNodes(bt.root, bt.height) :
        \A i \in 1..Len(n.node) :
            IF n.height = 0
            THEN n.node[i].val # None /\ n.node[i].next = <<>>
            ELSE n.node[i].val = None /\ n.node[i].next # <<>>

\* the root has split twice, and a key was put more than once on the way
C13_Witness ==
    /\ bt.height = 2
    /\ DupPuts >= 1
    /\ \A i \in 1..Len(bt.root) : Len(bt.root[i].next) >= 2

\* C14: every internal node of the multiway tree has at least 2 and at most
\* M children, every node has fewer than M entries, and a put that splits
\* the root leaves two nodes of M / 2 entries under the new root.
C14_Occupancy ==
    /\ [](\A n \in BTNodes(bt.root, bt.height) :
            /\ Len(n.node) < M
            /\ n.height > 0 => (Len(n.node) >= 2 /\ Len(n.node) <= M))
    /\ [][bt'.height > bt.height =>
            /\ Len(bt'.root) = 2
            /\ Len(bt'.root[1].next) = M \div 2
            /\ Len(bt'.root[2].next) = M \div 2]_vars

\* a leaf has split below an internal node that now has M - 1 children, and
\* some leaf holds M - 1 entries
C14_Witness ==
    /\ \E n \in BTNodes(bt.root, bt.height) :
          n.height > 0 /\ Len(n.node) = M - 1
    /\ \E n \in BTNodes(bt.root, bt.height) :
          n.height = 0 /\ Len(n.node) = M - 1

\* every node on the path that a put of key descends has M - 1 entries, so
\* the new entry makes each of them, the root last, reach M entries
RECURSIVE BTPathFull(_, _, _)
BTPathFull(node, key, height) ==
    /\ Len(node) = M - 1
    /\ \/ height = 0
       \/ BTPathFull(node[bt_insert_pos(node, key, 0) + 1].next, key,
                     height - 1)

\* C15: height() of the multiway tree is Some(0) on the empty tree; a put
\* increases it by exactly 1 when it splits the root and leaves it
\* unchanged otherwise, so it never decreases.
C15_HeightCounter ==
    /\ [](bt_is_empty(bt) => bt_height(bt) = Some(0))
    /\ [][\A key \in KeysBT :
            cnt'[key] = cnt[key] + 1 =>
              /\ bt_height(bt') =
                    Some(bt_height(bt)[1]
                         + (IF BTPathFull(bt.root, key, bt.height)
                            THEN 1 ELSE 0))
              /\ bt_height(bt')[1] >= bt_height(bt)[1]]_vars

\* the root has just split for the second time
C15_Witness ==
    /\ bt_height(bt) = Some(2)
    /\ Len(bt.root) = 2
    /\ TotalPuts >= 2 * M

SetMax(S) == CHOOSE x \in S : \A y \in S : x >= y

\* the depths (number of edges from the root, which is at depth d) of the
\* nodes of a binary tree
RECURSIVE BSTDepths(_, _)
BSTDepths(t, d) ==
    IF BST_IsNode(t)
    THEN {d} \cup BSTDepths(t.left, d + 1) \cup BSTDepths(t.right, d + 1)
    ELSE {}

RECURSIVE RBDepths(_, _)
RBDepths(t, d) ==
    IF RB_IsNode(t)
    THEN {d} \cup RBDepths(t.left, d + 1) \cup RBDepths(t.right, d + 1)
    ELSE {}

\* C16: height() of the unbalanced and of the red-black tree is None
\* exactly when nothing was put; otherwise it is Some(h) with h the number
\* of edges on the longest path from the root down to a node.
C16_HeightIsLongestPath ==
    /\ (bst_height(bst) = None) <=> (KeysPut = {})
    /\ (rb_height(rb) = None) <=> (KeysPut = {})
    /\ KeysPut # {} =>
          /\ bst_height(bst) = Some(SetMax(BSTDepths(bst, 0)))
          /\ rb_height(rb) = Some(SetMax(RBDepths(rb, 0)))

\* the two trees hold the same five or more keys at different heights
C16_Witness ==
    /\ Cardinality(KeysPut) >= 5
    /\ rb_height(rb) = Some(2)
    /\ bst_height(bst) = Some(4)

\* C17: min() and max() of each of the three trees are None exactly when
\* nothing was put, and otherwise the smallest and the largest key put.
C17_MinMax ==
    LET lo == IF KeysPut = {} THEN None ELSE Some(SetMin(KeysPut))
        hi == IF KeysPut = {} THEN None ELSE Some(SetMax(KeysPut))
    IN  /\ bst_min(bst) = lo /\ bst_max(bst) = hi
        /\ rb_min(rb) = lo /\ rb_max(rb) = hi
        /\ bt_min(bt) = lo /\ bt_max(bt) = hi

\* the smallest key was put after the multiway tree's root had split, so it
\* is not the key of the root's first entry, and the largest key is not at
\* the root of either binary tree
C17_Witness ==
    /\ bt.height >= 1
    /\ bt.root[1].key # SetMin(KeysPut)
    /\ bst.k # SetMax(KeysPut)
    /\ rb.k # SetMax(KeysPut)

\* C18: in each of the three trees get(k) is None for every key k that was
\* never put, and contains(k) is true exactly when k was put, which is
\* exactly when get(k) is present.
C18_AbsentKeys ==
    \A k \in KeysAll :
        /\ k \notin KeysPut =>
              /\ bst_get(bst, k) = None
              /\ rb_get(rb, k) = None
              /\ bt_get(bt, k) = None
        /\ bst_contains(bst, k) <=> k \in KeysPut
        /\ rb_contains(rb, k) <=> k \in KeysPut
        /\ bt_contains(bt, k) <=> k \in KeysPut
        /\ bst_contains(bst, k) <=> bst_get(bst, k) # None
        /\ rb_contains(rb, k) <=> rb_get(rb, k) # None
        /\ bt_contains(bt, k) <=> bt_get(bt, k) # None

\* a key that was never put lies between keys that were, one of which is
\* the key of a separator in the split root of the multiway tree
C18_Witness ==
    /\ bt.height >= 1
    /\ \E k \in KeysAll \ KeysPut :
          /\ \E a \in KeysPut : a < k
          /\ \E b \in KeysPut : k < b
    /\ bt_contains(bt, bt.root[2].key)

C20_Index ==
    /\ [](out.op = "index" =>
            LET g == IF out.tree = "bst" THEN bst_get(bst, out.arg)
                     ELSE bt_get(bt, out.arg)
                msg == IF out.tree = "bst"
                       THEN "Missing entry for key in BST"
                       ELSE "Missing entry for key in Balanced Tree"
            IN  IF out.arg \in KeysPut
                THEN ~out.res.panicked /\ g = Some(out.res.ret)
                ELSE out.res.panicked /\ out.res.ret = msg)
    /\ [][out'.op = "index" => (bst' = bst /\ bt' = bt)]_vars

\* tree[&k] has aborted on a multiway tree whose root has split, for a key
\* k that lies between keys that were put
C20_Witness ==
    /\ out.op = "index" /\ out.tree = "bt" /\ out.res.panicked
    /\ bt.height >= 1
    /\ \E a \in KeysPut : a < out.arg
    /\ \E b \in KeysPut : out.arg < b

\* the pairs of the nodes of the binary trees in queue, then of their
\* children and so on: a breadth-first walk with a first-in first-out queue
RECURSIVE BreadthFirst(_)
BreadthFirst(queue) ==
    IF queue = <<>> THEN <<>>
    ELSE LET t == Head(queue)
             l == IF t.left.tag = "Node" THEN <<t.left>> ELSE <<>>
             r == IF t.right.tag = "Node" THEN <<t.right>> ELSE <<>>
         IN  <<<<t.k, t.v>>>> \o BreadthFirst(Tail(queue) \o l \o r)

\* C21: on a non-empty unbalanced or red-black tree traverse(LevelOrder)
\* returns the nodes in breadth-first order (depth by depth, left to
\* right), every node once, and each of its height() + 1 passes yields a
\* level that has nodes while a further pass would yield none.
C21_LevelOrder ==
    KeysPut # {} =>
        /\ bst_traverse(bst, "LevelOrder") = Returned(BreadthFirst(<<bst>>))
        /\ rb_traverse(rb, "LevelOrder") = Returned(BreadthFirst(<<rb>>))
        /\ Len(bst_traverse(bst, "LevelOrder").ret) = Cardinality(BSTNodes(bst))
        /\ Len(rb_traverse(rb, "LevelOrder").ret) = Cardinality(RBNodes(rb))
        /\ Range(KeysOf(bst_traverse(bst, "LevelOrder").ret)) = KeysPut
        /\ Range(KeysOf(rb_traverse(rb, "LevelOrder").ret)) = KeysPut
        /\ \A d \in 0..bst_height(bst)[1] : bst_level_order(bst, d) # <<>>
        /\ bst_level_order(bst, bst_height(bst)[1] + 1) = <<>>
        /\ \A d \in 0..rb_height(rb)[1] : rb_level_order(rb, d) # <<>>
        /\ rb_level_order(rb, rb_height(rb)[1] + 1) = <<>>

\* both trees have three levels, with two or more nodes on the deepest
\* level of the unbalanced tree and a full second level in the red-black
\* tree
C21_Witness ==
    /\ bst_height(bst) = Some(2)
    /\ rb_height(rb) = Some(2)
    /\ Len(bst_level_order(bst, 2)) >= 2
    /\ Len(rb_level_order(rb, 1)) = 2

\* C22: putting c, d, b, a (the keys 3, 4, 2, 1) in that order into an
\* empty unbalanced tree yields size 4, min a, max d, height Some(2),
\* pre-order c b a d, in-order a b c d, post-order a b d c and level-order
\* c b d a.
C22_BSTScenario ==
    hist = <<3, 4, 2, 1>> =>
        /\ bst_size(bst) = 4
        /\ bst_min(bst) = Some(1)
        /\ bst_max(bst) = Some(4)
        /\ bst_height(bst) = Some(2)
        /\ KeysOf(bst_traverse(bst, "PreOrder").ret) = <<3, 2, 1, 4>>
        /\ KeysOf(bst_traverse(bst, "InOrder").ret) = <<1, 2, 3, 4>>
        /\ KeysOf(bst_traverse(bst, "PostOrder").ret) = <<1, 2, 4, 3>>
        /\ ~bst_traverse(bst, "LevelOrder").panicked
        /\ KeysOf(bst_traverse(bst, "LevelOrder").ret) = <<3, 2, 4, 1>>

\* the four puts of the scenario have been made
C22_Witness ==
    /\ hist = <<3, 4, 2, 1>>
    /\ bst_get(bst, 1) = Some(Val(1, 1))

\* C23: putting the keys a..i (1..9) in ascending order into an empty
\* red-black tree yields size 9, height Some(3), pre-order d b a c h f e g i
\* and level-order d b h a c f i e g; putting them in descending order
\* yields size 9, height Some(3), pre-order f d b a c e h g i and
\* level-order f d h b e g i a c.
C23_RBNineKeys ==
    /\ hist = <<1, 2, 3, 4, 5, 6, 7, 8, 9>> =>
          /\ rb_size(rb) = 9
          /\ rb_height(rb) = Some(3)
          /\ KeysOf(rb_traverse(rb, "PreOrder").ret)
                = <<4, 2, 1, 3, 8, 6, 5, 7, 9>>
          /\ ~rb_traverse(rb, "LevelOrder").panicked
          /\ KeysOf(rb_traverse(rb, "LevelOrder").ret)
                = <<4, 2, 8, 1, 3, 6, 9, 5, 7>>
    /\ hist = <<9, 8, 7, 6, 5, 4, 3, 2, 1>> =>
          /\ rb_size(rb) = 9
          /\ rb_height(rb) = Some(3)
          /\ KeysOf(rb_traverse(rb, "PreOrder").ret)
                = <<6, 4, 2, 1, 3, 5, 8, 7, 9>>
          /\ ~rb_traverse(rb, "LevelOrder").panicked
          /\ KeysOf(rb_traverse(rb, "LevelOrder").ret)
                = <<6, 4, 8, 2, 5, 7, 9, 1, 3>>

\* the nine puts of the descending scenario have been made
C23_Witness ==
    /\ hist = <<9, 8, 7, 6, 5, 4, 3, 2, 1>>
    /\ rb.k = 6

C24_BTThousandKeys ==
    Len(hist) = ThousandKeys =>
        /\ bt_size(bt) = 1000
        /\ bt_height(bt) = Some(8)
        /\ bt_min(bt) = Some(1)
        /\ bt_max(bt) = Some(1000)
        /\ bt_get(bt, 501) = Some(502)

\* the thousand puts of the descending run have been made
C24_Witness ==
    /\ Len(hist) = ThousandKeys
    /\ hist[1] = ThousandKeys
    /\ bt_contains(bt, 501)

\* ---- the textbook left-leaning red-black insertion (Sedgewick & Wayne,
\* "Algorithms" 4th edition, section 3.3), the algorithm the doc comment of
\* RedBlackTree names

\* rotateLeft: the right child is promoted and takes the colour of the old
\* subtree root, the old root becomes its red left child
Textbook_rotate_left(h) ==
    LET x == h.right
        d == [h EXCEPT !.right = x.left, !.color = TRUE,
                       !.size = rb_size(h.left) + rb_size(x.left) + 1]
    IN  [x EXCEPT !.left = d, !.color = h.color, !.size = h.size]

\* rotateRight: the left child is promoted and takes the colour of the old
\* subtree root, the old root becomes its red right child
Textbook_rotate_right(h) ==
    LET x == h.left
        d == [h EXCEPT !.left = x.right, !.color = TRUE,
                       !.size = rb_size(x.right) + rb_size(h.right) + 1]
    IN  [x EXCEPT !.right = d, !.color = h.color, !.size = h.size]

\* flipColors: the node becomes red, both children black
Textbook_flip_colors(h) ==
    [h EXCEPT !.color = TRUE,
              !.left = rb_set_color(h.left, FALSE),
              !.right = rb_set_color(h.right, FALSE)]

Textbook_balance(h) ==
    LET a == IF rb_is_red(h.right) /\ ~rb_is_red(h.left)
             THEN Textbook_rotate_left(h) ELSE h
        b == IF rb_is_red(a.left) /\ rb_is_left_red(a.left)
             THEN Textbook_rotate_right(a) ELSE a
        c == IF rb_is_red(b.left) /\ rb_is_red(b.right)
             THEN Textbook_flip_colors(b) ELSE b
    IN  rb_update_size(c)

RECURSIVE Textbook_insert(_, _, _)
Textbook_insert(t, key, value) ==
    IF RB_IsNode(t)
    THEN Textbook_balance(
             IF key < t.k
             THEN [t EXCEPT !.left = Textbook_insert(t.left, key, value)]
             ELSE IF key > t.k
             THEN [t EXCEPT !.right = Textbook_insert(t.right, key, value)]
             ELSE [t EXCEPT !.v = value])
    ELSE RB_Node(key, value, TRUE, 1, RB_NIL, RB_NIL)

Textbook_put(t, key, value) ==
    rb_set_color(Textbook_insert(t, key, value), FALSE)

\* the textbook tree after the puts of the keys of s, in order
RECURSIVE Textbook_build(_)
Textbook_build(s) ==
    IF s = <<>> THEN RB_NIL
    ELSE Textbook_put(Textbook_build(SubSeq(s, 1, Len(s) - 1)),
                      s[Len(s)], Val(s[Len(s)], 1))

\* shape, key and colour of every node
RECURSIVE Skeleton(_)
Skeleton(t) ==
    IF RB_IsNode(t)
    THEN <<Skeleton(t.left), t.k, t.color, Skeleton(t.right)>>
    ELSE <<>>

NoRepeat(s) == \A i, j \in 1..Len(s) : s[i] = s[j] => i = j

\* C26: for every sequence of puts of distinct keys, the red-black tree has
\* the shape, the key at every position and the colour on every node of the
\* tree the textbook left-leaning red-black insertion builds from the same
\* sequence.
C26_RefinesTextbook ==
    NoRepeat(hist) => Skeleton(rb) = Skeleton(Textbook_build(hist))

\* this step is a put of a key the tree already stores
RepeatedPut == \E k \in KeyUniverse : cnt[k] > 0 /\ cnt'[k] = cnt[k] + 1

\* C27: a put of a key the red-black tree already stores leaves size(),
\* height(), the shape, every node's colour and every stored value
\* unchanged.
C27_RepeatedPutNoOp ==
    [][RepeatedPut =>
        /\ rb_size(rb') = rb_size(rb)
        /\ rb_height(rb') = rb_height(rb)
        /\ Skeleton(rb') = Skeleton(rb)
        /\ rb_in_order(rb') = rb_in_order(rb)]_vars

RECURSIVE Pow2(_)
Pow2(n) == IF n = 0 THEN 1 ELSE 2 * Pow2(n - 1)

\* C28: after puts that stored n >= 1 distinct keys the longest root-to-leaf
\* path of the red-black tree has at most 2 * log2(n + 1) nodes, that is
\* 2^ceil((height() + 1) / 2) <= n + 1.
C28_LogarithmicHeight ==
    KeysPut # {} =>
        /\ rb_height(rb) # None
        /\ Pow2((rb_height(rb)[1] + 2) \div 2) <= Cardinality(KeysPut) + 1

Reverse(s) == [i \in 1..Len(s) |-> s[Len(s) + 1 - i]]

\* b is the mirror image of a: the same node at the mirrored position
RECURSIVE IsMirror(_, _)
IsMirror(a, b) ==
    IF BST_IsNode(a)
    THEN /\ BST_IsNode(b)
         /\ a.k = b.k /\ a.v = b.v /\ a.size = b.size
         /\ IsMirror(a.left, b.right)
         /\ IsMirror(a.right, b.left)
    ELSE ~BST_IsNode(b)

\* this step is a call of invert
InvertStep == Len(hist') = Len(hist) + 1 /\ hist'[Len(hist')] = 0

\* the unbalanced tree was built by puts alone
PutsOnly == \A i \in 1..Len(hist) : hist[i] # 0

C30_LookupsAfterInvert ==
    /\ \A k \in KeysPut :
          /\ bst_get(bst, k) = Some(Val(k, 1))
          /\ bst_contains(bst, k)
    /\ bst_min(bst) = IF KeysPut = {} THEN None ELSE Some(SetMin(KeysPut))
    /\ bst_max(bst) = IF KeysPut = {} THEN None ELSE Some(SetMax(KeysPut))
    /\ Len(bst_in_order(bst)) = Cardinality(KeysPut)

=============================================================================
